---- MODULE Spec2Model ----
(***************************************************************************)
(* Model of the authentication / session layer of the Freebox API client  *)
(* (custom_components/freebox_connect/freebox_api.py): the FreeboxAPI      *)
(* fields app_token, session_token and challenge, and the operations       *)
(* set_app_token, open_session, close_session, get, put and post.          *)
(* One caller drives one operation at a time; every HTTP exchange is a     *)
(* step whose response is chosen by the device (the environment).          *)
(* Around the client: the coordinator's polling round (AppSpec), two       *)
(* open_session invocations as concurrent tasks (ConcSpec), the            *)
(* configuration flow (FlowSpec) and the switch and button entities        *)
(* (EntitySpec).                                                           *)
(***************************************************************************)
EXTENDS Integers, Sequences, FiniteSets, TLC

\* ---------------------------------------------------------------- bounds
\* Number of session tokens the device issues before it only refuses.
MaxTokens == 3
\* Number of distinct challenges the device hands out.
NumChallenges == 2
\* Number of distinct application credentials a caller may install.
NumAppTokens == 1

\* ---------------------------------------------------- values of the code
\* Python None (initial value of app_token, session_token, challenge).
None == 0
\* The empty string "", falsy like None.
Empty == -1
\* `not x` for a str | None field.
Falsy(x) == x = None \/ x = Empty

HTTP_OK == 200
HTTP_FORBIDDEN == 403
\* Status codes the device answers with (500 stands for any other status).
Statuses == {200, 403, 500}
\* The result field of a data response: absent (None) or a payload.
Payload == 7
Results == {None, Payload}

Verbs == {"get", "put", "post"}
AuthError == "FreeboxAuthorizationError"
TransportError == "ClientError"

\* A response as the code sees it. fault = TRUE: the exchange raised a
\* transport-level exception (timeout, connection error) instead.
Resp(f, s, ok, res) == [fault |-> f, status |-> s, success |-> ok, result |-> res]
Fault == Resp(TRUE, 0, FALSE, None)
\* Responses to an authorized data request or a logout request.
DataResponses ==
    {Fault} \cup {Resp(FALSE, s, FALSE, None) : s \in Statuses \ {200}}
            \cup {Resp(FALSE, 200, ok, res) : ok \in BOOLEAN, res \in Results}
\* Responses to GET /api/v11/login: result carries the challenge.
ChallengeResponses ==
    {Fault} \cup {Resp(FALSE, s, FALSE, None) : s \in Statuses \ {200}}
            \cup {Resp(FALSE, 200, FALSE, None)}
            \cup {Resp(FALSE, 200, TRUE, c) : c \in 1..NumChallenges}

VARIABLES
    app_token,      \* FreeboxAPI.app_token
    session_token,  \* FreeboxAPI.session_token
    challenge,      \* FreeboxAPI.challenge
    issued,         \* device: number of session tokens issued so far
    pc,             \* position of the caller
    op,             \* operation in progress / last completed
    site,           \* why open_session runs: "pre", "403" or "direct"
    headers,        \* local variable headers["X-Fbx-App-Auth"]
    outcome,        \* how the last operation ended
    trace,          \* events of the current / last operation
    tok0,           \* session_token when the operation started
    everSet,        \* set_app_token was called with a non-empty token
    prev,           \* the operation before the current one, its logout requests
    open,           \* response contexts (`async with`) entered and not left
    rnd,            \* coordinator: the polling round (_async_update_data)
    permissions_checked, \* coordinator: hasattr(self, "_permissions_checked")
    flow,           \* config flow: step shown, its fields, polls made
    ent,            \* an entity handler (switch, button) and the cached data
    task            \* open_session invocations running as separate tasks

\* State of the config flow, the entities and the concurrent tasks.
outside == <<flow, ent, task>>

\* State of the integration around the client, untouched by the client's
\* own operations.
coord == <<rnd, permissions_checked, flow, ent, task>>

vars == <<app_token, session_token, challenge, issued, pc, op, site,
          headers, outcome, trace, tok0, everSet, prev, open, rnd,
          permissions_checked, flow, ent, task>>

\* ---------------------------------------------------------------- events
EvOpen(s)          == <<"open_session", s>>
EvSend(kind, tok)  == <<"send", kind, tok>>
\* The session-open request carries no token but the derived password.
EvSubmit(pwd)      == <<"send", "session", None, pwd>>
EvRecv(kind, r)    == <<"recv", kind, r.status, r.success, r.result>>
\* Responses of the login flow keep their result, a status string or a
\* grant object, in a position of its own.
EvRecvTrack(r)     == <<"recv", "track", r.status, r.success, None, r.result>>
EvRecvGrant(r)     == <<"recv", "authorize", r.status, r.success, None, None, r.result>>
EvAssign(tok)      == <<"assign", "session_token", tok>>
EvOsRaise(err)     == <<"os_raise", err>>
EvOsReturn(tok)    == <<"os_return", "ok", tok>>

\* The result object of an authorization response that carries none.
NoGrant == [app_token |-> None, track_id |-> None]

\* How an operation ended: val is the value returned by get/put/post,
\* open_session and close_session, status the string returned by
\* track_authorization, grant the pair returned by request_authorization.
Pending     == [kind |-> "pending", val |-> None, err |-> "-",
                status |-> "-", grant |-> NoGrant]
Return(v)   == [kind |-> "return", val |-> v, err |-> "-",
                status |-> "-", grant |-> NoGrant]
Raise(e)    == [kind |-> "raise", val |-> None, err |-> e,
                status |-> "-", grant |-> NoGrant]
ReturnStatus(st) == [kind |-> "return", val |-> None, err |-> "-",
                     status |-> st, grant |-> NoGrant]
ReturnPair(a, t) == [kind |-> "return", val |-> None, err |-> "-",
                     status |-> "-",
                     grant |-> [app_token |-> a, track_id |-> t]]

\* No polling round has run yet.
NoRound == [state |-> "none", pos |-> 0, data |-> {}, got |-> {},
            held |-> FALSE, lost |-> FALSE]

\* The tasks that may run open_session on one client at the same time: a
\* polling get and an entity's put.
Tasks == {1, 2}
\* No task is inside open_session.
NoTasks == [t \in Tasks |-> [pc |-> "idle", fetched |-> None, password |-> <<>>]]
\* config_flow.py lines 43-48: a flow that has not requested authorization.
\* polls counts the polls of the loop, seen holds the statuses of the polls
\* already examined, granted the track id a poll reported as granted.
NoFlow == [step |-> "user", app_token |-> None, track_id |-> None,
           polls |-> 0, seen |-> {}, granted |-> None,
           result |-> "-", entry |-> None]
\* No entity handler is running. cached is the switch's field in
\* coordinator.data and hasKey whether its section is there; changed and
\* accepted tell whether the last turn changed the field and whether the
\* device accepted its PUT; posts and firstAccepted count the reboot POSTs
\* of the last press and tell whether the device accepted the first.
NoEntity == [state |-> "idle", target |-> FALSE, cached |-> FALSE,
             hasKey |-> TRUE, changed |-> FALSE, accepted |-> FALSE,
             posts |-> 0, firstAccepted |-> FALSE]

Init ==
    /\ app_token = None
    /\ session_token = None
    /\ challenge = None
    /\ issued = 0
    /\ pc = "idle"
    /\ op = "none"
    /\ site = "-"
    /\ headers = None
    /\ outcome = Pending
    /\ trace = <<>>
    /\ tok0 = None
    /\ everSet = FALSE
    /\ prev = [op |-> "none", logouts |-> 0]
    /\ open = 0
    /\ rnd = NoRound
    /\ permissions_checked = FALSE
    /\ flow = NoFlow
    /\ ent = NoEntity
    /\ task = NoTasks

\* ------------------------------------------------------------ open_session
\* hashlib.sha1: the digest is 20 bytes long.
DigestSize == 20
\* hmac.new(key, msg, hashlib.sha1).digest(): DigestSize bytes determined by
\* key and message. SHA-1 itself is not computed: a mixing function of the
\* key, the message and the byte position stands for it.
Digest(key, msg) ==
    [i \in 1..DigestSize |-> (key * 31 + msg * 17 + key * msg * i + i * 7) % 256]
\* The digits hexdigest() writes.
HexDigits == <<"0", "1", "2", "3", "4", "5", "6", "7", "8", "9",
               "a", "b", "c", "d", "e", "f">>
\* hexdigest(): two digits per byte, high nibble first.
HexDigest(bytes) ==
    [i \in 1..(2 * Len(bytes)) |->
       LET b == bytes[(i + 1) \div 2]
       IN  IF i % 2 = 1 THEN HexDigits[(b \div 16) + 1]
                        ELSE HexDigits[(b % 16) + 1]]
\* Lines 174-176: hmac.new(key, msg, hashlib.sha1).hexdigest().
Password(key, msg) == HexDigest(Digest(key, msg))

\* A derivation keyed by the challenge over the app_token.
SubmittedPassword_swapped == Password(challenge', app_token)

\* Lines 171-183: the password of the session request, keyed by app_token
\* over the challenge field just assigned.
SubmittedPassword == Password(app_token, challenge')

\* Responses to POST /api/v11/login/session/: on success the device issues
\* the next fresh session token (issued + 1), at most MaxTokens of them.
SessionResponses ==
    {Fault} \cup {Resp(FALSE, s, FALSE, None) : s \in Statuses \ {200}}
            \cup {Resp(FALSE, 200, FALSE, None)}
            \cup (IF issued < MaxTokens
                    THEN {Resp(FALSE, 200, TRUE, issued + 1)} ELSE {})

\* What the operation that now starts leaves behind as the previous one:
\* whether it was a close_session, and the logout requests it sent.
PrevOf ==
    [op |-> IF op = "close_session" THEN op ELSE "none",
     logouts |-> Cardinality({i \in DOMAIN trace :
                    trace[i][1] = "send" /\ trace[i][2] = "logout"})]

\* check_permissions, lines 213-221: the result of its get if truthy,
\* None otherwise and None for any exception.
CheckPermissionsResult(o) ==
    IF o.kind = "raise" THEN Return(None)
    ELSE IF o.val # None THEN o ELSE Return(None)

\* How the operation in progress ends when its get/put/post ends with o.
Finish(o) == IF op = "check_permissions" THEN CheckPermissionsResult(o) ELSE o

\* A client whose renegotiation after a 403 sits outside the try block.
CallerOutcome_propagate(s, err) == Raise(err)

\* What the caller of open_session makes of an exception raised by it:
\* get/put/post call it outside their try block when no session is held
\* (the exception leaves the call) and inside it after a 403 (the broad
\* `except Exception` turns it into a None return).
CallerOutcome(s, err) == IF s = "403" THEN Return(None) ELSE Raise(err)

\* put: the call at line 312 is outside the try block, the one at line
\* 330 inside it (except Exception, lines 344-346).
PutCallerOutcome(s, err) == IF s = "403" THEN Return(None) ELSE Raise(err)
\* post: the call at line 366 is outside the try block, the one at line
\* 384 inside it (except Exception, lines 398-400).
PostCallerOutcome(s, err) == IF s = "403" THEN Return(None) ELSE Raise(err)
\* The caller's treatment of a failed open_session, by the operation v.
CallerOutcomeOf(v, s, err) ==
    CASE v = "put"  -> PutCallerOutcome(s, err)
      [] v = "post" -> PostCallerOutcome(s, err)
      [] OTHER      -> CallerOutcome(s, err)

\* open_session raises err: the operation in progress ends.
OsRaise(err, tr) ==
    /\ trace' = Append(tr, EvOsRaise(err))
    /\ outcome' = Finish(CallerOutcomeOf(op, site, err))
    /\ pc' = "idle"
    /\ open' = 0

\* A retry that starts the request over, so that a 403 on the retry
\* renegotiates again.
OsContinuation_restart(s) == IF s = "direct" THEN "idle" ELSE "send1"

\* Where control goes when open_session returns: line 260 after the call at
\* line 258, line 278 after the call at line 276, the caller otherwise.
OsContinuation(s) == IF s = "pre" THEN "send1" ELSE IF s = "403" THEN "send2" ELSE "idle"

\* A check that only recognises None, not the empty string.
NoAppToken_noneOnly == app_token = None

\* Line 153: `if not self.app_token`.
NoAppToken == Falsy(app_token)

\* open_session, lines 153-160: the app_token check, then the challenge
\* request is issued.
OsEntry ==
    /\ pc = "os_entry"
    /\ IF NoAppToken
         THEN /\ OsRaise(AuthError, trace)
         ELSE /\ trace' = Append(trace, EvSend("challenge", None))
              /\ pc' = "os_chal"
              /\ open' = open + 1
              /\ UNCHANGED outcome
    /\ UNCHANGED <<app_token, session_token, challenge, issued, op, site,
                   headers, tok0, everSet, prev, coord>>

\* A negotiation that drops the held token as soon as it fails.
SessionOnFailure_cleared == None

\* Lines 161-169 and 188-197: every raise of open_session precedes the
\* assignment of line 199, so a failure leaves session_token alone.
SessionOnFailure == session_token

\* A check of the HTTP status only, ignoring the success flag.
Rejected_statusOnly(r) == r.status # HTTP_OK

\* Lines 161-169 and 188-197: a non-200 status or a false success flag.
Rejected(r) == r.status # HTTP_OK \/ ~r.success

\* open_session, lines 160-186: the challenge response is examined, the
\* challenge stored, the password derived and the session request issued.
OsChallengeResp(r) ==
    /\ pc = "os_chal"
    /\ LET tr == Append(trace, EvRecv("challenge", r)) IN
       IF r.fault
         THEN /\ OsRaise(TransportError, tr)
              /\ session_token' = SessionOnFailure
              /\ UNCHANGED challenge
       ELSE IF Rejected(r)
         THEN /\ OsRaise(AuthError, tr)
              /\ session_token' = SessionOnFailure
              /\ UNCHANGED challenge
       ELSE /\ challenge' = r.result
            /\ UNCHANGED session_token
            /\ trace' = Append(tr, EvSubmit(SubmittedPassword))
            /\ pc' = "os_sess"
            /\ UNCHANGED <<outcome, open>>
    /\ UNCHANGED <<app_token, issued, op, site, headers,
                   tok0, everSet, prev, coord>>

\* A negotiation that keeps the token it already holds.
NewSessionToken_keep(r) == session_token

\* Line 199: the token of the response becomes session_token.
NewSessionToken(r) == r.result

\* open_session, lines 185-202: the session response is examined and, on
\* success, session_token is assigned and returned.
OsSessionResp(r) ==
    /\ pc = "os_sess"
    /\ LET tr == Append(trace, EvRecv("session", r)) IN
       IF r.fault
         THEN /\ OsRaise(TransportError, tr)
              /\ session_token' = SessionOnFailure
              /\ UNCHANGED issued
       ELSE IF Rejected(r)
         THEN /\ OsRaise(AuthError, tr)
              /\ session_token' = SessionOnFailure
              /\ UNCHANGED issued
       ELSE /\ session_token' = NewSessionToken(r)
            /\ issued' = issued + 1
            /\ trace' = tr \o <<EvAssign(NewSessionToken(r)),
                                 EvOsReturn(NewSessionToken(r))>>
            /\ pc' = OsContinuation(site)
            /\ outcome' = IF site = "direct"
                            THEN Return(NewSessionToken(r)) ELSE outcome
            /\ open' = open - 1
    /\ UNCHANGED <<app_token, challenge, op, site, headers, tok0, everSet,
                   prev, coord>>

\* A caller invokes open_session itself.
OpenSession ==
    /\ pc = "idle"
    /\ op' = "open_session"
    /\ site' = "direct"
    /\ pc' = "os_entry"
    /\ trace' = <<EvOpen("direct")>>
    /\ outcome' = Pending
    /\ tok0' = session_token
    /\ headers' = None
    /\ prev' = PrevOf
    /\ UNCHANGED <<app_token, session_token, challenge, issued, everSet,
                   open, coord>>

\* ---------------------------------------------------------- get/put/post
\* A call that never negotiates before its first request.
NeedsSession_never == FALSE

\* A call that negotiates a new session every time.
NeedsSession_always == TRUE

\* Line 257: `if not self.session_token`.
NeedsSession == Falsy(session_token)
\* put, line 311, and post, line 365.
PutNeedsSession == Falsy(session_token)
PostNeedsSession == Falsy(session_token)
NeedsSessionOf(v) ==
    CASE v = "put"  -> PutNeedsSession
      [] v = "post" -> PostNeedsSession
      [] OTHER      -> NeedsSession

\* Lines 257-258 (311-312, 365-366): the call starts; with no session
\* token held it first awaits open_session.
StartCall(v) ==
    /\ pc = "idle"
    /\ op' = v
    /\ outcome' = Pending
    /\ tok0' = session_token
    /\ headers' = None
    /\ IF NeedsSessionOf(v)
         THEN /\ site' = "pre"
              /\ trace' = <<EvOpen("pre")>>
              /\ pc' = "os_entry"
         ELSE /\ site' = "-"
              /\ trace' = <<>>
              /\ pc' = "send1"
    /\ prev' = PrevOf
    /\ UNCHANGED <<app_token, session_token, challenge, issued, everSet, open>>

\* A caller of the client invokes get, put or post.
Call(v) == StartCall(v) /\ UNCHANGED coord

\* A caller of the client invokes check_permissions (line 214: its get).
CheckPermissions == StartCall("check_permissions") /\ UNCHANGED coord

\* Lines 260-266: headers are built from session_token and the data
\* request is issued.
SendFirst ==
    /\ pc = "send1"
    /\ headers' = session_token
    /\ trace' = Append(trace, EvSend("data", session_token))
    /\ pc' = "await1"
    /\ open' = open + 1
    /\ UNCHANGED <<app_token, session_token, challenge, issued, op, site,
                   outcome, tok0, everSet, prev, coord>>

\* A client that renegotiates after any failed first response.
SessionExpired_anyFailure(r) == r.fault \/ r.status # HTTP_OK

\* A client that also takes an API-level failure for an expired session.
SessionExpired_orFailed(r) ==
    ~r.fault /\ (r.status = HTTP_FORBIDDEN \/ (r.status = HTTP_OK /\ ~r.success))

\* Line 273: `if response.status == 403`.
SessionExpired(r) == ~r.fault /\ r.status = HTTP_FORBIDDEN
\* put, line 327, and post, line 381.
PutSessionExpired(r) == ~r.fault /\ r.status = HTTP_FORBIDDEN
PostSessionExpired(r) == ~r.fault /\ r.status = HTTP_FORBIDDEN
SessionExpiredOf(v, r) ==
    CASE v = "put"  -> PutSessionExpired(r)
      [] v = "post" -> PostSessionExpired(r)
      [] OTHER      -> SessionExpired(r)

\* A 403 branch that drops the rejected token before renegotiating.
SessionAfter403_cleared == None

\* Lines 273-276: the 403 branch leaves session_token to open_session.
SessionAfter403 == session_token

\* A first response whose result is dropped.
FirstOutcome_noResult(r) == Return(None)

\* Lines 267-272 and 287-292: the value returned for a first response that
\* is not 403.
FirstOutcome(r) ==
    IF ~r.fault /\ r.status = HTTP_OK /\ r.success
      THEN Return(r.result) ELSE Return(None)
\* put, lines 321-326 and 341-346.
PutFirstOutcome(r) ==
    IF ~r.fault /\ r.status = HTTP_OK /\ r.success
      THEN Return(r.result) ELSE Return(None)
\* post, lines 375-380 and 395-400.
PostFirstOutcome(r) ==
    IF ~r.fault /\ r.status = HTTP_OK /\ r.success
      THEN Return(r.result) ELSE Return(None)
FirstOutcomeOf(v, r) ==
    CASE v = "put"  -> PutFirstOutcome(r)
      [] v = "post" -> PostFirstOutcome(r)
      [] OTHER      -> FirstOutcome(r)

\* Lines 267-276 and 287-292: the first response. 200: result or None by
\* the success flag; 403: open_session is awaited; any other status or a
\* transport fault: None.
AwaitFirst(r) ==
    /\ pc = "await1"
    /\ LET tr == Append(trace, EvRecv("data", r)) IN
       IF SessionExpiredOf(op, r)
         THEN /\ site' = "403"
              /\ trace' = Append(tr, EvOpen("403"))
              /\ pc' = "os_entry"
              /\ session_token' = SessionAfter403
              /\ UNCHANGED <<outcome, open>>
         ELSE /\ trace' = tr
              /\ pc' = "idle"
              /\ outcome' = Finish(FirstOutcomeOf(op, r))
              /\ open' = open - 1
              /\ UNCHANGED <<site, session_token>>
    /\ UNCHANGED <<app_token, challenge, issued, op, headers, tok0, everSet,
                   prev, coord>>

\* A retry that re-sends the headers built for the first attempt.
RetryHeaders_stale == headers

\* Line 278: the header of the retry is rebuilt from session_token.
RetryHeaders == session_token
\* put, line 332, and post, line 386.
PutRetryHeaders == session_token
PostRetryHeaders == session_token
RetryHeadersOf(v) ==
    CASE v = "put"  -> PutRetryHeaders
      [] v = "post" -> PostRetryHeaders
      [] OTHER      -> RetryHeaders

\* Lines 278-281: the retry is issued.
SendRetry ==
    /\ pc = "send2"
    /\ headers' = RetryHeadersOf(op)
    /\ trace' = Append(trace, EvSend("data", RetryHeadersOf(op)))
    /\ pc' = "await2"
    /\ open' = open + 1
    /\ UNCHANGED <<app_token, session_token, challenge, issued, op, site,
                   outcome, tok0, everSet, prev, coord>>

\* Lines 282-286 and 290-292: the value returned for the retry response.
RetryOutcome(r) ==
    IF ~r.fault /\ r.status = HTTP_OK /\ r.success
      THEN Return(r.result) ELSE Return(None)
\* put, lines 336-340 and 344-346.
PutRetryOutcome(r) ==
    IF ~r.fault /\ r.status = HTTP_OK /\ r.success
      THEN Return(r.result) ELSE Return(None)

\* A retry that returns the result of any 200 response.
PostRetryOutcome_statusOnly(r) ==
    IF ~r.fault /\ r.status = HTTP_OK THEN Return(r.result) ELSE Return(None)

\* post, lines 390-394 and 398-400.
PostRetryOutcome(r) ==
    IF ~r.fault /\ r.status = HTTP_OK /\ r.success
      THEN Return(r.result) ELSE Return(None)
RetryOutcomeOf(v, r) ==
    CASE v = "put"  -> PutRetryOutcome(r)
      [] v = "post" -> PostRetryOutcome(r)
      [] OTHER      -> RetryOutcome(r)

\* Lines 282-286 and 290-292: the retry response decides the return value.
AwaitRetry(r) ==
    /\ pc = "await2"
    /\ trace' = Append(trace, EvRecv("data", r))
    /\ pc' = "idle"
    /\ outcome' = Finish(RetryOutcomeOf(op, r))
    /\ open' = open - 2
    /\ UNCHANGED <<app_token, session_token, challenge, issued, op, site,
                   headers, tok0, everSet, prev, coord>>

\* ----------------------------------------------------------- close_session
\* A close that always sends the logout request.
NoSessionToClose_never == FALSE

\* Line 225: `if not self.session_token`.
NoSessionToClose == Falsy(session_token)

\* Lines 225-233: nothing to do without a session token; otherwise the
\* logout request is issued with the token attached.
CloseSession ==
    /\ pc = "idle"
    /\ op' = "close_session"
    /\ site' = "-"
    /\ tok0' = session_token
    /\ prev' = PrevOf
    /\ IF NoSessionToClose
         THEN /\ trace' = <<>>
              /\ headers' = None
              /\ outcome' = Return(None)
              /\ pc' = "idle"
              /\ UNCHANGED open
         ELSE /\ trace' = <<EvSend("logout", session_token)>>
              /\ headers' = session_token
              /\ outcome' = Pending
              /\ pc' = "cl_await"
              /\ open' = open + 1
    /\ UNCHANGED <<app_token, session_token, challenge, issued, everSet, coord>>

\* A logout that forgets the token only when the device confirmed it.
AfterLogout_confirmedOnly(r) ==
    IF ~r.fault /\ r.status = HTTP_OK THEN None ELSE session_token

\* Lines 241-242: the finally clause, for every outcome of the exchange.
AfterLogout(r) == None

\* Lines 234-242: whatever the logout exchange did, the finally clause
\* clears session_token.
CloseResp(r) ==
    /\ pc = "cl_await"
    /\ trace' = Append(trace, EvRecv("logout", r))
    /\ session_token' = AfterLogout(r)
    /\ outcome' = Return(None)
    /\ pc' = "idle"
    /\ open' = open - 1
    /\ UNCHANGED <<app_token, challenge, issued, op, site, headers, tok0,
                   everSet, prev, coord>>

\* ----------------------------------------------------------- set_app_token
\* Values a caller passes to set_app_token.
AppTokenInputs == {Empty} \cup (1..NumAppTokens)

\* Lines 402-405.
SetAppToken(t) ==
    /\ pc = "idle"
    /\ app_token' = t
    /\ everSet' = (everSet \/ ~Falsy(t))
    /\ op' = "set_app_token"
    /\ site' = "-"
    /\ trace' = <<>>
    /\ outcome' = Return(None)
    /\ tok0' = session_token
    /\ prev' = PrevOf
    /\ UNCHANGED <<session_token, challenge, issued, pc, headers, open, coord>>

\* ----------------------------------------------------- request_authorization
\* Track identifiers the device hands out.
NumTrackIds == 2
\* Responses to POST /api/v11/login/authorize: on success the result holds
\* the issued app_token and the track_id.
AuthorizeResponses ==
    {Resp(TRUE, 0, FALSE, NoGrant)}
      \cup {Resp(FALSE, s, FALSE, NoGrant) : s \in Statuses \ {200}}
      \cup {Resp(FALSE, 200, FALSE, NoGrant)}
      \cup {Resp(FALSE, 200, TRUE, [app_token |-> a, track_id |-> t]) :
              a \in 1..NumAppTokens, t \in 1..NumTrackIds}

\* Lines 82-95: the authorization request is issued.
StartRequestAuthorization ==
    /\ pc = "idle"
    /\ op' = "request_authorization"
    /\ site' = "-"
    /\ trace' = <<EvSend("authorize", None)>>
    /\ outcome' = Pending
    /\ tok0' = session_token
    /\ headers' = None
    /\ prev' = PrevOf
    /\ pc' = "ra_await"
    /\ open' = open + 1
    /\ UNCHANGED <<app_token, session_token, challenge, issued, everSet>>

\* A caller of the client invokes request_authorization.
RequestAuthorization == StartRequestAuthorization /\ UNCHANGED coord

\* A client that keeps the token it was just issued.
AppTokenAfterAuthorize_stored(r) ==
    IF ~r.fault /\ ~Rejected(r) THEN r.result.app_token ELSE app_token

\* Lines 109-117: the issued token is returned, the client's own app_token
\* is not assigned.
AppTokenAfterAuthorize(r) == app_token

\* Lines 96-117: non-200 or success false raise FreeboxAuthorizationError;
\* otherwise the pair (app_token, track_id) of the result is returned.
AuthorizeOutcome(r) ==
    IF r.fault THEN Raise(TransportError)
    ELSE IF Rejected(r) THEN Raise(AuthError)
    ELSE ReturnPair(r.result.app_token, r.result.track_id)

\* Lines 95-117: the response to the authorization request.
RequestAuthorizationResp(r) ==
    /\ pc = "ra_await"
    /\ trace' = Append(trace, EvRecvGrant(r))
    /\ outcome' = AuthorizeOutcome(r)
    /\ app_token' = AppTokenAfterAuthorize(r)
    /\ pc' = "idle"
    /\ open' = open - 1
    /\ UNCHANGED <<session_token, challenge, issued, op, site, headers, tok0,
                   everSet, prev, coord>>

\* ------------------------------------------------------- track_authorization
\* The status enum of the docstring (lines 125-126).
StatusEnum == {"pending", "granted", "denied", "timeout", "unknown"}
\* The result of a poll response without a status field.
Absent == "<absent>"
\* What a device may put in the status field: a member of the enum, no
\* field at all, or a value the enum does not know.
StatusInputs == StatusEnum \cup {Absent, "expired"}
\* Responses to GET /api/v11/login/authorize/{track_id}.
TrackResponses ==
    {Resp(TRUE, 0, FALSE, Absent)}
      \cup {Resp(FALSE, s, FALSE, Absent) : s \in Statuses \ {200}}
      \cup {Resp(FALSE, 200, FALSE, Absent)}
      \cup {Resp(FALSE, 200, TRUE, st) : st \in StatusInputs}

\* Lines 128-130: the poll request is issued.
StartTrackAuthorization(t) ==
    /\ pc = "idle"
    /\ op' = "track_authorization"
    /\ site' = "-"
    /\ trace' = <<EvSend("track", t)>>
    /\ outcome' = Pending
    /\ tok0' = session_token
    /\ headers' = None
    /\ prev' = PrevOf
    /\ pc' = "ta_await"
    /\ open' = open + 1
    /\ UNCHANGED <<app_token, session_token, challenge, issued, everSet>>

\* A caller of the client invokes track_authorization.
TrackAuthorization(t) == StartTrackAuthorization(t) /\ UNCHANGED coord

\* Line 140: result.get("status", "unknown").
StatusOf(x) == IF x = Absent THEN "unknown" ELSE x

\* Lines 130-144: "unknown" for non-200 or success false, the status field
\* otherwise; nothing catches an exception of the exchange.
TrackOutcome(r) ==
    IF r.fault THEN Raise(TransportError)
    ELSE IF Rejected(r) THEN ReturnStatus("unknown")
    ELSE ReturnStatus(StatusOf(r.result))

\* Lines 130-144: the response to the poll request.
TrackAuthorizationResp(r) ==
    /\ pc = "ta_await"
    /\ trace' = Append(trace, EvRecvTrack(r))
    /\ outcome' = TrackOutcome(r)
    /\ pc' = "idle"
    /\ open' = open - 1
    /\ UNCHANGED <<app_token, session_token, challenge, issued, op, site,
                   headers, tok0, everSet, prev, coord>>

\* ------------------------------------------------------------ specification
Progress ==
    \/ OsEntry
    \/ \E r \in ChallengeResponses : OsChallengeResp(r)
    \/ \E r \in SessionResponses : OsSessionResp(r)
    \/ SendFirst
    \/ \E r \in DataResponses : AwaitFirst(r)
    \/ SendRetry
    \/ \E r \in DataResponses : AwaitRetry(r)
    \/ \E r \in DataResponses : CloseResp(r)
    \/ \E r \in AuthorizeResponses : RequestAuthorizationResp(r)
    \/ \E r \in TrackResponses : TrackAuthorizationResp(r)

Next ==
    \/ \E t \in AppTokenInputs : SetAppToken(t)
    \/ \E v \in Verbs : Call(v)
    \/ CheckPermissions
    \/ OpenSession
    \/ CloseSession
    \/ RequestAuthorization
    \/ \E t \in 1..NumTrackIds : TrackAuthorization(t)
    \/ Progress

Spec == Init /\ [][Next]_vars

\* Every exchange ends: the device answers or the transport raises.
FairSpec == Spec /\ WF_vars(Progress)

\* -------------------------------------------------------------- coordinator
\* State of the client and of the operation in progress.
apivars == <<app_token, session_token, challenge, issued, pc, op, site,
             headers, outcome, trace, tok0, everSet, prev, open>>

\* coordinator.py lines 72-112: the keys of the data dict, in the order
\* their endpoints are fetched; "permissions" (line 68) comes before them.
Endpoints == <<"system", "connection", "wifi_config", "wifi_ap",
               "wifi_state", "repeater", "storage", "lan_devices",
               "lcd_config">>
KeyAt(pos) == IF pos = 0 THEN "permissions" ELSE Endpoints[pos]

\* The call that just ended was answered 200 with success true and a
\* non-empty result (its last event).
Answered ==
    /\ Len(trace) > 0
    /\ trace[Len(trace)][1] = "recv" /\ trace[Len(trace)][2] = "data"
    /\ trace[Len(trace)][3] = HTTP_OK /\ trace[Len(trace)][4]
    /\ trace[Len(trace)][5] # None
\* The call that just ended saw a 403 and could not renegotiate.
LostSession ==
    \E i \in DOMAIN trace :
      /\ trace[i] = EvOpen("403")
      /\ \A j \in DOMAIN trace : j > i => trace[j][1] # "os_return"

\* coordinator.py lines 61-72: a polling round starts; its first call is
\* check_permissions on the first round, the system get afterwards.
RoundStart ==
    /\ rnd.state # "running"
    /\ LET first == IF permissions_checked THEN 1 ELSE 0 IN
       /\ rnd' = [state |-> "running", pos |-> first, data |-> {},
                  got |-> {}, held |-> ~Falsy(session_token), lost |-> FALSE]
       /\ StartCall(IF first = 0 THEN "check_permissions" ELSE "get")
    /\ UNCHANGED <<permissions_checked, outside>>

\* coordinator.py lines 66-117: the awaited call ended. An exception becomes
\* UpdateFailed; otherwise a truthy result is stored under its key and the
\* next endpoint is fetched, or the data dict is returned after the last.
RoundNext ==
    /\ pc = "idle"
    /\ rnd.state = "running"
    /\ UNCHANGED outside
    /\ IF outcome.kind = "raise"
         THEN /\ rnd' = [rnd EXCEPT !.state = "failed"]
              /\ UNCHANGED <<apivars, permissions_checked>>
         ELSE LET r1 == [rnd EXCEPT
                           !.data = IF outcome.val # None
                                      THEN @ \cup {KeyAt(rnd.pos)} ELSE @,
                           !.got = IF Answered
                                     THEN @ \cup {KeyAt(rnd.pos)} ELSE @,
                           !.lost = @ \/ LostSession]
              IN  /\ permissions_checked' = (permissions_checked \/ rnd.pos = 0)
                  /\ IF rnd.pos < Len(Endpoints)
                       THEN /\ rnd' = [r1 EXCEPT !.pos = @ + 1]
                            /\ StartCall("get")
                       ELSE /\ rnd' = [r1 EXCEPT !.state = "returned"]
                            /\ UNCHANGED apivars

\* switch.py / button.py: an entity action calls put or post on the
\* coordinator's client; entities exist once a first round has run.
EntityAction(v) ==
    /\ rnd.state \in {"returned", "failed"}
    /\ Call(v)

\* coordinator.py lines 47-50: the client of a coordinator, with the
\* app_token of the config entry installed when there is one.
AppInit ==
    /\ app_token \in {None} \cup (1..NumAppTokens)
    /\ everSet = (app_token # None)
    /\ session_token = None
    /\ challenge = None
    /\ issued = 0
    /\ pc = "idle"
    /\ op = "none"
    /\ site = "-"
    /\ headers = None
    /\ outcome = Pending
    /\ trace = <<>>
    /\ tok0 = None
    /\ prev = [op |-> "none", logouts |-> 0]
    /\ open = 0
    /\ rnd = NoRound
    /\ permissions_checked = FALSE
    /\ flow = NoFlow
    /\ ent = NoEntity
    /\ task = NoTasks

\* The steps of a get/put/post in progress.
CallProgress ==
    \/ OsEntry
    \/ \E r \in ChallengeResponses : OsChallengeResp(r)
    \/ \E r \in SessionResponses : OsSessionResp(r)
    \/ SendFirst
    \/ \E r \in DataResponses : AwaitFirst(r)
    \/ SendRetry
    \/ \E r \in DataResponses : AwaitRetry(r)

AppNext ==
    \/ RoundStart
    \/ RoundNext
    \/ \E v \in {"put", "post"} : EntityAction(v)
    \/ CallProgress

\* The integration: polling rounds and entity actions on one client.
AppSpec == AppInit /\ [][AppNext]_vars

\* ------------------------------------------------------- concurrent tasks
\* Two calls on one client were both refused with 403 and each awaits
\* open_session (lines 276, 330): the client holds an app_token and the
\* refused session token; nothing serialises the two invocations.
ConcInit ==
    /\ app_token \in 1..NumAppTokens
    /\ everSet = TRUE
    /\ session_token = 1
    /\ issued = 1
    /\ challenge = None
    /\ pc = "idle"
    /\ op = "none"
    /\ site = "-"
    /\ headers = None
    /\ outcome = Pending
    /\ trace = <<>>
    /\ tok0 = None
    /\ prev = [op |-> "none", logouts |-> 0]
    /\ open = 0
    /\ rnd = NoRound
    /\ permissions_checked = FALSE
    /\ flow = NoFlow
    /\ ent = NoEntity
    /\ task = NoTasks

\* What a task's steps leave alone: the single caller's operation state.
taskframe == <<app_token, pc, op, site, headers, outcome, trace, tok0,
               everSet, prev, open, rnd, permissions_checked, flow, ent>>

\* Lines 153-160 in task t: the app_token check, then the challenge request.
TaskEnter(t) ==
    /\ task[t].pc = "idle"
    /\ task' = [task EXCEPT ![t].pc = IF NoAppToken THEN "failed" ELSE "chal"]
    /\ UNCHANGED <<taskframe, session_token, challenge, issued>>

\* Lines 160-171 in task t: the challenge of the response is stored in the
\* field self.challenge and the `async with` block is left, which awaits
\* the response's __aexit__: the task may be suspended there.
TaskChallengeResp(t, r) ==
    /\ task[t].pc = "chal"
    /\ IF r.fault \/ Rejected(r)
         THEN /\ task' = [task EXCEPT ![t].pc = "failed"]
              /\ UNCHANGED challenge
         ELSE /\ challenge' = r.result
              /\ task' = [task EXCEPT ![t].pc = "derive", ![t].fetched = r.result]
    /\ UNCHANGED <<taskframe, session_token, issued>>

\* Lines 174-187 in task t: the password is derived from the fields
\* self.app_token and self.challenge and the session request is issued.
TaskDerive(t) ==
    /\ task[t].pc = "derive"
    /\ task' = [task EXCEPT ![t].pc = "sess",
                            ![t].password = Password(app_token, challenge)]
    /\ UNCHANGED <<taskframe, session_token, challenge, issued>>

\* Lines 188-202 in task t: the session response.
TaskSessionResp(t, r) ==
    /\ task[t].pc = "sess"
    /\ IF r.fault \/ Rejected(r)
         THEN /\ task' = [task EXCEPT ![t].pc = "failed"]
              /\ session_token' = SessionOnFailure
              /\ UNCHANGED issued
         ELSE /\ task' = [task EXCEPT ![t].pc = "done"]
              /\ session_token' = NewSessionToken(r)
              /\ issued' = issued + 1
    /\ UNCHANGED <<taskframe, challenge>>

ConcNext ==
    \E t \in Tasks :
      \/ TaskEnter(t)
      \/ \E r \in ChallengeResponses : TaskChallengeResp(t, r)
      \/ TaskDerive(t)
      \/ \E r \in SessionResponses : TaskSessionResp(t, r)

\* Two open_session invocations interleaving at their await points.
ConcSpec == ConcInit /\ [][ConcNext]_vars

\* -------------------------------------------------------------- config flow
\* config_flow.py line 248: max_attempts.
MaxAttempts == 30

\* What the steps of the flow leave alone.
flowframe == <<rnd, permissions_checked, ent, task>>

\* async_step_authorize without user input, lines 213-216: the flow's own
\* client (lines 132-140) requests authorization.
FlowAuthorize ==
    /\ flow.step = "user"
    /\ flow' = [flow EXCEPT !.step = "requesting"]
    /\ StartRequestAuthorization
    /\ UNCHANGED flowframe

\* Lines 216-239: the pair returned is kept and the authorize form shown;
\* on an exception the user form is shown again with an error.
FlowAuthorizeDone ==
    /\ flow.step = "requesting"
    /\ pc = "idle"
    /\ flow' = IF outcome.kind = "return"
                 THEN [flow EXCEPT !.step = "authorize",
                                   !.app_token = outcome.grant.app_token,
                                   !.track_id = outcome.grant.track_id]
                 ELSE [flow EXCEPT !.step = "user"]
    /\ UNCHANGED <<apivars, flowframe>>

\* Lines 209-211 and 245-251: the user continues; the polling loop starts
\* with its first poll of the flow's track id.
FlowContinue ==
    /\ flow.step = "authorize"
    /\ flow' = [flow EXCEPT !.step = "checking", !.polls = 1]
    /\ StartTrackAuthorization(flow.track_id)
    /\ UNCHANGED flowframe

\* A loop that takes every status but denied and timeout for a grant.
PollVerdict_notDenied(st) ==
    CASE st = "denied"  -> "auth_denied"
      [] st = "timeout" -> "auth_timeout"
      [] OTHER          -> "finish"

\* Lines 253-264: what the loop does with the status of a poll.
PollVerdict(st) ==
    CASE st = "granted" -> "finish"
      [] st = "denied"  -> "auth_denied"
      [] st = "timeout" -> "auth_timeout"
      [] OTHER          -> "again"

\* A loop without a bound on its attempts.
MorePolls_unbounded == TRUE

\* Line 249: `for attempt in range(max_attempts)`.
MorePolls == flow.polls < MaxAttempts

\* Lines 251-272: a poll ended. An exception aborts with auth_check_failed;
\* granted goes to the finish step, denied and timeout abort; any other
\* status sleeps and polls again, until the attempts are used up.
FlowPollDone ==
    /\ flow.step = "checking"
    /\ pc = "idle"
    /\ IF outcome.kind = "raise"
         THEN /\ flow' = [flow EXCEPT !.step = "aborted",
                                      !.result = "auth_check_failed"]
              /\ UNCHANGED apivars
         ELSE LET verdict == PollVerdict(outcome.status)
                  f1 == [flow EXCEPT
                           !.seen = @ \cup {outcome.status},
                           !.granted = IF outcome.status = "granted"
                                         THEN trace[1][3] ELSE @]
              IN  IF verdict = "finish"
                    THEN /\ flow' = [f1 EXCEPT !.step = "finish"]
                         /\ UNCHANGED apivars
                  ELSE IF verdict # "again"
                    THEN /\ flow' = [f1 EXCEPT !.step = "aborted",
                                               !.result = verdict]
                         /\ UNCHANGED apivars
                  ELSE IF MorePolls
                    THEN /\ flow' = [f1 EXCEPT !.polls = @ + 1]
                         /\ StartTrackAuthorization(flow.track_id)
                  ELSE /\ flow' = [f1 EXCEPT !.step = "aborted",
                                             !.result = "auth_timeout"]
                       /\ UNCHANGED apivars
    /\ UNCHANGED flowframe

\* async_step_finish with user input, lines 308-321: the entry is created
\* with the flow's app_token.
FlowFinish ==
    /\ flow.step = "finish"
    /\ flow' = [flow EXCEPT !.step = "created", !.entry = flow.app_token]
    /\ UNCHANGED <<apivars, flowframe>>

\* The exchanges of the flow's client.
FlowProgress ==
    \/ \E r \in AuthorizeResponses : RequestAuthorizationResp(r)
    \/ \E r \in TrackResponses : TrackAuthorizationResp(r)
    \/ FlowAuthorizeDone
    \/ FlowPollDone

FlowNext ==
    \/ FlowAuthorize
    \/ FlowContinue
    \/ FlowFinish
    \/ FlowProgress

\* One configuration flow with its own client.
FlowSpec == Init /\ [][FlowNext]_vars
\* Every exchange ends and the flow's handler resumes when it does.
FairFlowSpec == FlowSpec /\ WF_vars(FlowProgress)

\* ---------------------------------------------------------------- entities
\* What the entity handlers leave alone.
entframe == <<rnd, permissions_checked, flow, task>>

\* The last response of the call that just ended was HTTP 200 with the
\* success flag true: the device accepted the request.
DeviceAccepted ==
    /\ Len(trace) > 0
    /\ trace[Len(trace)][1] = "recv" /\ trace[Len(trace)][2] = "data"
    /\ trace[Len(trace)][3] = HTTP_OK /\ trace[Len(trace)][4]

\* switch.py lines 93-99 and 108-114 (161-167, 176-182, ...): the switch is
\* turned on (b = TRUE) or off and awaits its put.
SwitchTurn(b) ==
    /\ ent.state = "idle"
    /\ ent' = [ent EXCEPT !.state = "switch", !.target = b]
    /\ StartCall("put")
    /\ UNCHANGED entframe

\* Lines 100-106: the put came back. Its return value is not looked at:
\* unless it raised, the cached field is set to the target when the
\* section is in coordinator.data.
CachedAfterPut ==
    IF outcome.kind = "raise" THEN ent.cached
    ELSE IF ent.hasKey THEN ent.target ELSE ent.cached

SwitchDone ==
    /\ ent.state = "switch"
    /\ pc = "idle"
    /\ ent' = [ent EXCEPT !.state = "idle",
                          !.cached = CachedAfterPut,
                          !.changed = (CachedAfterPut # ent.cached),
                          !.accepted = DeviceAccepted]
    /\ UNCHANGED <<apivars, entframe>>

\* button.py lines 161-169: the repeater reboot button is pressed; the
\* first POST goes to the path with the trailing slash.
ButtonPress ==
    /\ ent.state = "idle"
    /\ ent' = [ent EXCEPT !.state = "press1", !.posts = 1,
                          !.firstAccepted = FALSE]
    /\ StartCall("post")
    /\ UNCHANGED entframe

\* Lines 170-179 and 185-186: a result ends the press (a refresh is
\* requested), an exception ends it too; with None the second POST goes to
\* the path without the trailing slash.
ButtonNext ==
    /\ ent.state = "press1"
    /\ pc = "idle"
    /\ IF outcome.kind = "raise" \/ outcome.val # None
         THEN /\ ent' = [ent EXCEPT !.state = "idle",
                                    !.firstAccepted = DeviceAccepted]
              /\ UNCHANGED apivars
         ELSE /\ ent' = [ent EXCEPT !.state = "press2", !.posts = 2,
                                    !.firstAccepted = DeviceAccepted]
              /\ StartCall("post")
    /\ UNCHANGED entframe

\* Lines 180-186: the second POST came back; the press is over.
ButtonDone ==
    /\ ent.state = "press2"
    /\ pc = "idle"
    /\ ent' = [ent EXCEPT !.state = "idle"]
    /\ UNCHANGED <<apivars, entframe>>

\* The entities of a loaded config entry: the coordinator's client holds
\* the entry's app_token; the switch's section may be missing from the data.
EntityInit ==
    /\ app_token \in 1..NumAppTokens
    /\ everSet = TRUE
    /\ session_token = None
    /\ challenge = None
    /\ issued = 0
    /\ pc = "idle"
    /\ op = "none"
    /\ site = "-"
    /\ headers = None
    /\ outcome = Pending
    /\ trace = <<>>
    /\ tok0 = None
    /\ prev = [op |-> "none", logouts |-> 0]
    /\ open = 0
    /\ rnd = NoRound
    /\ permissions_checked = FALSE
    /\ flow = NoFlow
    /\ ent \in {[NoEntity EXCEPT !.hasKey = h] : h \in BOOLEAN}
    /\ task = NoTasks

EntityNext ==
    \/ \E b \in BOOLEAN : SwitchTurn(b)
    \/ SwitchDone
    \/ ButtonPress
    \/ ButtonNext
    \/ ButtonDone
    \/ CallProgress

\* Switch turns and button presses on the coordinator's client.
EntitySpec == EntityInit /\ [][EntityNext]_vars

TypeOK ==
    /\ app_token \in {None, Empty} \cup (1..NumAppTokens)
    /\ session_token \in {None} \cup (1..MaxTokens)
    /\ challenge \in {None} \cup (1..NumChallenges)
    /\ issued \in 0..MaxTokens
    /\ pc \in {"idle", "os_entry", "os_chal", "os_sess", "send1", "await1",
               "send2", "await2", "cl_await", "ra_await", "ta_await"}
    /\ op \in Verbs \cup {"none", "open_session", "close_session", "set_app_token",
                        "check_permissions", "request_authorization",
                        "track_authorization"}
    /\ open \in 0..2
    /\ rnd.state \in {"none", "running", "returned", "failed"}
    /\ rnd.pos \in 0..Len(Endpoints)
    /\ permissions_checked \in BOOLEAN
    /\ flow.step \in {"user", "requesting", "authorize", "checking",
                      "finish", "created", "aborted"}
    /\ flow.polls \in 0..MaxAttempts
    /\ ent.state \in {"idle", "switch", "press1", "press2"}
    /\ ent.posts \in 0..2
    /\ \A t \in Tasks :
         task[t].pc \in {"idle", "chal", "derive", "sess", "done", "failed"}
    /\ site \in {"-", "pre", "403", "direct"}
    /\ outcome.kind \in {"pending", "return", "raise"}

\* ------------------------------------------------------- reading the trace
Min(S) == CHOOSE x \in S : \A y \in S : x <= y
Max(S) == CHOOSE x \in S : \A y \in S : x >= y
IsSend(e, k) == e[1] = "send" /\ e[2] = k
IsRecv(e, k) == e[1] = "recv" /\ e[2] = k
DataSends == {i \in DOMAIN trace : IsSend(trace[i], "data")}
DataRecvs == {i \in DOMAIN trace : IsRecv(trace[i], "data")}
Opens(s)  == {i \in DOMAIN trace : trace[i] = EvOpen(s)}
OsReturns == {i \in DOMAIN trace : trace[i][1] = "os_return"}
OsRaises(err) == {i \in DOMAIN trace : trace[i] = EvOsRaise(err)}
Assigns   == {i \in DOMAIN trace : trace[i][1] = "assign"}
\* The response event e is HTTP 200 with the success flag true.
Accepted(e) == e[3] = HTTP_OK /\ e[4]
\* A get/put/post call is running or was the last operation.
InVerb == op \in Verbs
VerbDone == op \in Verbs /\ pc = "idle"
\* The first response to the data request of this call was HTTP 403.
First403 == InVerb /\ DataRecvs # {} /\ trace[Min(DataRecvs)][3] = HTTP_FORBIDDEN

\* C1: when the first response of a get/put/post is 403, exactly one
\* open_session is invoked for it; if it succeeds the request is re-sent
\* exactly once with the token that negotiation returned (not the rejected
\* one), and the retry response alone decides the return value: its result
\* on 200 with success true, None otherwise.
C1_RetryOn403 ==
    First403 =>
      LET i == Min(DataRecvs)
          rejected == trace[Max({j \in DataSends : j < i})][3]
          R == {j \in OsReturns : j > i}
      IN  /\ Opens("403") = {i + 1}
          /\ Cardinality(R) <= 1
          /\ R = {} => Cardinality(DataSends) = 1
          /\ \A j \in R :
               /\ pc = "send2" => Cardinality(DataSends) = 1
               /\ pc # "send2" =>
                    /\ Cardinality(DataSends) = 2
                    /\ trace[j + 1] = EvSend("data", trace[j][3])
                    /\ trace[j][3] # rejected
               /\ pc = "idle" =>
                    /\ Len(trace) = j + 2
                    /\ IsRecv(trace[j + 2], "data")
                    /\ outcome = IF Accepted(trace[j + 2])
                                   THEN Return(trace[j + 2][5])
                                   ELSE Return(None)

\* A call whose first response was 403 renegotiated, retried and returned
\* the payload of the retry.
C1_Witness ==
    /\ VerbDone /\ First403
    /\ \E j \in OsReturns : j > Min(DataRecvs)
    /\ outcome = Return(Payload)

\* C2 (safety part): a call sends the data request at most twice, invokes
\* open_session at most once because of a 403, and returns None when the
\* retry is answered 403 too.
C2_Bounded ==
    InVerb =>
      /\ Cardinality(DataSends) <= 2
      /\ Cardinality(DataRecvs) <= 2
      /\ Cardinality(Opens("403")) <= 1
      /\ (Cardinality(DataRecvs) = 2
            /\ \A i \in DataRecvs : trace[i][3] = HTTP_FORBIDDEN)
           => (pc = "idle" /\ outcome = Return(None))

\* C2: a single get/put/post never retries more than once, whatever the
\* device answers, and every call terminates.
C2_NeverRetriesTwice == [](C2_Bounded) /\ ((pc # "idle") ~> (pc = "idle"))

\* Both the first attempt and the retry were answered 403; None returned.
C2_Witness ==
    /\ VerbDone
    /\ Cardinality(DataRecvs) = 2
    /\ \A i \in DataRecvs : trace[i][3] = HTTP_FORBIDDEN
    /\ outcome = Return(None)

\* C3: a get/put/post started without a session token invokes open_session
\* before any data request; when that negotiation fails with
\* FreeboxAuthorizationError the call raises that error and no data request
\* is sent.
C3_NegotiateFirst ==
    (InVerb /\ Falsy(tok0)) =>
      /\ Len(trace) >= 1 /\ trace[1] = EvOpen("pre")
      /\ \A i \in DataSends : \E j \in OsReturns : j < i
      /\ (OsRaises(AuthError) # {} /\ Opens("403") = {}) =>
           /\ pc = "idle"
           /\ outcome = Raise(AuthError)
           /\ DataSends = {}

\* A call started without a session whose negotiation was refused by the
\* device.
C3_Witness ==
    /\ VerbDone /\ Falsy(tok0)
    /\ \E i \in DOMAIN trace : IsRecv(trace[i], "session")
    /\ outcome = Raise(AuthError)
    /\ DataSends = {}

\* C4: a get/put/post call never ends with an exception other than
\* FreeboxAuthorizationError, transport faults during the negotiation
\* included.
C4_OnlyAuthErrorRaised ==
    (VerbDone /\ outcome.kind = "raise") => outcome.err = AuthError

\* C5: whenever open_session fails with FreeboxAuthorizationError during a
\* get/put/post call, the call ends by raising that error instead of
\* returning None.
C5_AuthErrorNeverSwallowed ==
    (VerbDone /\ OsRaises(AuthError) # {}) => outcome = Raise(AuthError)

\* C6: after a get/put/post call whose first response was 403 and whose
\* renegotiation did not succeed, no session token is held.
C6_403InvalidatesSession ==
    (VerbDone /\ First403 /\ {j \in OsReturns : j > Min(DataRecvs)} = {})
      => Falsy(session_token)

\* C7: without an application credential (app_token None or empty)
\* open_session raises FreeboxAuthorizationError before any HTTP request
\* and leaves session_token as it was; a client whose app_token was never
\* set never holds a session.
C7_NoAppTokenNoSession ==
    /\ ~everSet => session_token = None
    /\ (op \in Verbs \cup {"open_session"} /\ Falsy(app_token)) =>
         /\ \A i \in DOMAIN trace :
              ~IsSend(trace[i], "challenge") /\ ~IsSend(trace[i], "session")
         /\ \A i \in DOMAIN trace : trace[i][1] = "open_session" =>
              \/ i = Len(trace) /\ pc = "os_entry"
              \/ /\ Len(trace) = i + 1
                 /\ trace[i + 1] = EvOsRaise(AuthError)
                 /\ pc = "idle"
         /\ session_token = tok0

\* A session is held, the app_token was then replaced by the empty string,
\* and the renegotiation after a 403 failed at the app_token check.
C7_Witness ==
    /\ VerbDone /\ First403 /\ Falsy(app_token)
    /\ OsRaises(AuthError) # {}
    /\ session_token = tok0 /\ tok0 # None

\* C8: open_session sends the session-open request only after the challenge
\* request was answered 200 with success true, assigns session_token only
\* after the session-open request was answered 200 with success true, and
\* on a non-200 status or success false at either step raises
\* FreeboxAuthorizationError without performing the later steps.
C8_OpenSessionOrder ==
    /\ \A i \in DOMAIN trace :
         /\ IsRecv(trace[i], "challenge") =>
              i > 1 /\ trace[i - 1] = EvSend("challenge", None)
         /\ IsSend(trace[i], "session") =>
              i > 1 /\ IsRecv(trace[i - 1], "challenge") /\ Accepted(trace[i - 1])
         /\ IsRecv(trace[i], "session") =>
              i > 1 /\ IsSend(trace[i - 1], "session")
         /\ trace[i][1] = "assign" =>
              /\ i > 1 /\ IsRecv(trace[i - 1], "session") /\ Accepted(trace[i - 1])
              /\ trace[i][3] = trace[i - 1][5]
         /\ ((IsRecv(trace[i], "challenge") \/ IsRecv(trace[i], "session"))
               /\ trace[i][3] # 0 /\ ~Accepted(trace[i])) =>
              /\ Len(trace) = i + 1
              /\ trace[i + 1] = EvOsRaise(AuthError)
    /\ (op \in Verbs \cup {"open_session"} /\ Assigns = {}) => session_token = tok0

\* open_session ran through both steps and returned the stored token.
C8_Witness ==
    /\ op = "open_session" /\ pc = "idle"
    /\ Assigns # {}
    /\ outcome = Return(session_token) /\ session_token # None

\* Session-open responses of this operation that granted a token.
SessionGrants == {i \in DOMAIN trace : IsRecv(trace[i], "session") /\ Accepted(trace[i])}
\* The token in force before event i: the one of the last grant, else the
\* one held when the operation started.
CurTok(i) ==
    LET G == {j \in SessionGrants : j < i}
    IN  IF G = {} THEN tok0 ELSE trace[Max(G)][5]

\* C9: a successful open_session supersedes the prior token: it returns and
\* stores the token the device granted, every later data or logout request
\* carries that token until the next grant or close, and a token held
\* before is not attached again.
C9_Supersedes ==
    /\ session_token \in {None, issued}
    /\ \A i \in DOMAIN trace :
         /\ (IsSend(trace[i], "data") \/ IsSend(trace[i], "logout")) =>
              trace[i][3] = CurTok(i)
         /\ trace[i][1] = "os_return" => trace[i][3] = CurTok(i)
    /\ ~(op = "close_session" /\ pc = "idle") =>
         session_token = CurTok(Len(trace) + 1)

\* A call that started with the first token, renegotiated and sent its
\* retry with the second.
C9_Witness ==
    /\ InVerb /\ tok0 = 1 /\ session_token = 2
    /\ pc = "await2"
    /\ trace[Len(trace)] = EvSend("data", 2)

\* C10: whenever close_session returns, session_token is None, and it
\* returns normally whatever the logout exchange did.
C10_CloseAlwaysClears ==
    (op = "close_session" /\ pc = "idle") =>
      /\ session_token = None
      /\ outcome = Return(None)

\* A logout that failed (transport fault or non-200) on a held session.
C10_Witness ==
    /\ op = "close_session" /\ pc = "idle"
    /\ tok0 # None
    /\ Len(trace) = 2 /\ trace[2][3] # HTTP_OK

\* Logout requests issued by the current operation.
Logouts == {i \in DOMAIN trace : IsSend(trace[i], "logout")}

\* C11: close_session with no session active sends nothing and returns
\* normally; a second close_session right after a first therefore starts
\* without a session, the two together issue at most one logout request,
\* and the state after the second equals the state after the first.
C11_CloseIdempotent ==
    /\ (op = "close_session" /\ Falsy(tok0)) =>
         /\ pc = "idle" /\ trace = <<>> /\ open = 0
         /\ outcome = Return(None)
         /\ session_token = tok0
    /\ (op = "close_session" /\ prev.op = "close_session") =>
         /\ Falsy(tok0)
         /\ prev.logouts + Cardinality(Logouts) <= 1

\* A close_session that sent its logout, followed by a second close_session.
C11_Witness ==
    /\ op = "close_session" /\ pc = "idle"
    /\ prev.op = "close_session" /\ prev.logouts = 1
    /\ trace = <<>> /\ session_token = None

\* C13: a get/put/post response of HTTP 200 with success false ends the
\* call with None: nothing follows it (no open_session, no retry, no
\* exception) and session_token is still the token the request carried.
C13_SoftFailure ==
    InVerb =>
      \A i \in DataRecvs :
        (trace[i][3] = HTTP_OK /\ ~trace[i][4]) =>
          /\ Len(trace) = i /\ pc = "idle"
          /\ outcome = Return(None)
          /\ session_token = trace[i - 1][3]

\* The first response was 200 with success false.
C13_Witness ==
    /\ VerbDone /\ Len(trace) = 2
    /\ IsRecv(trace[2], "data")
    /\ trace[2][3] = HTTP_OK /\ ~trace[2][4]
    /\ outcome = Return(None) /\ session_token = tok0

\* C14: a get/put/post response (first or retry) of HTTP 200 with success
\* true ends the call returning exactly its result field, which is None
\* when the response carries no result.
C14_ReturnsResult ==
    InVerb =>
      \A i \in DataRecvs :
        Accepted(trace[i]) =>
          /\ Len(trace) = i /\ pc = "idle"
          /\ outcome = Return(trace[i][5])

\* A retry accepted by the device without a result field: the call
\* succeeded and returned None.
C14_Witness ==
    /\ VerbDone /\ Cardinality(DataRecvs) = 2
    /\ Accepted(trace[Len(trace)]) /\ trace[Len(trace)][5] = None
    /\ outcome = Return(None)

\* C15: track_authorization returns "unknown" for every failed poll: a
\* non-200 status, success false, or a transport failure of the exchange.
C15_TrackNeverRaises ==
    (op = "track_authorization" /\ pc = "idle" /\ ~Accepted(trace[2]))
      => outcome = ReturnStatus("unknown")

\* C16: the value track_authorization returns is always a member of the
\* status enum.
C16_TrackStatusInEnum ==
    (op = "track_authorization" /\ pc = "idle" /\ outcome.kind = "return")
      => outcome.status \in StatusEnum

\* C17 (result): a non-200 status or success false makes
\* request_authorization raise FreeboxAuthorizationError; a 200 with
\* success true makes it return the pair (app_token, track_id) of the result.
C17_Result ==
    (op = "request_authorization" /\ pc = "idle") =>
      LET e == trace[2]
      IN  /\ (e[3] # 0 /\ ~Accepted(e)) => outcome = Raise(AuthError)
          /\ Accepted(e) =>
               outcome = ReturnPair(e[7].app_token, e[7].track_id)

\* C17: request_authorization raises FreeboxAuthorizationError on non-200
\* or success false, returns the pair of the result otherwise, and no step
\* of it changes the client's app_token or session_token.
C17_RequestAuthorization ==
    /\ [](C17_Result)
    /\ [][op' = "request_authorization" =>
            (app_token' = app_token /\ session_token' = session_token)]_vars

\* An authorization request the device accepted, on a client whose own
\* app_token was never set and stays None.
C17_Witness ==
    /\ op = "request_authorization" /\ pc = "idle"
    /\ outcome.kind = "return"
    /\ app_token = None /\ session_token = None

\* C20: session_token receives a token value only in open_session's
\* handling of the session-open response, and is otherwise written only by
\* close_session, which resets it to None; no step of get, put, post,
\* check_permissions, request_authorization, track_authorization or
\* set_app_token itself changes it.
C20_SessionTokenWriters ==
    [][session_token' # session_token =>
         \/ pc = "os_sess" /\ session_token' # None
         \/ op = "close_session" /\ pc = "cl_await" /\ session_token' = None]_vars

\* A get/put/post whose renegotiation after a 403 replaced the token.
C20_Witness ==
    /\ VerbDone /\ First403
    /\ Assigns # {}
    /\ tok0 # None /\ session_token # tok0

\* C12: in the integration open_session runs only inside a get/put/post
\* (check_permissions being a get), and only as the first thing of a call
\* started without a session token, or right after the first response of
\* the call when that response was 403; never after any other response.
C12_LazyRenewal ==
    \A i \in DOMAIN trace :
      trace[i][1] = "open_session" =>
        /\ op \in Verbs \cup {"check_permissions"}
        /\ \/ i = 1 /\ trace[i] = EvOpen("pre") /\ Falsy(tok0)
           \/ /\ trace[i] = EvOpen("403")
              /\ i > 1 /\ IsRecv(trace[i - 1], "data")
              /\ trace[i - 1][3] = HTTP_FORBIDDEN
              /\ {j \in DataRecvs : j < i} = {i - 1}

\* During a polling round, a get whose first response was 403 renegotiated,
\* retried, and got 403 again without a second renegotiation.
C12_Witness ==
    /\ rnd.state = "running" /\ op = "get" /\ pc = "idle"
    /\ Cardinality(Opens("403")) = 1
    /\ Cardinality(DataRecvs) = 2
    /\ trace[Len(trace)][3] = HTTP_FORBIDDEN

\* C18: a client has at most one HTTP exchange open at any time: each
\* response context is left before the next request is issued.
C18_OneExchangeAtATime == open <= 1

\* C19: a polling round that starts with a session token held never ends
\* in UpdateFailed, whatever the device answers, and the data dict it
\* returns holds exactly the endpoints that answered with a result.
C19_RoundSurvives ==
    rnd.held =>
      /\ rnd.state # "failed"
      /\ rnd.state = "returned" => rnd.data = rnd.got

\* A round that held a session, lost it to a 403 with a failed
\* renegotiation, and still returned data.
C19_Witness ==
    /\ rnd.state = "returned" /\ rnd.held /\ rnd.lost
    /\ rnd.data # {}

\* C23: when the first response of a get/put/post is a status other than
\* 200 and 403, or the exchange raises a transport fault, the call ends at
\* once with None: no open_session follows, the request is not sent again,
\* and session_token is still the token that request carried.
C23_SoftFailureFrame ==
    (InVerb /\ DataRecvs # {}
       /\ trace[Min(DataRecvs)][3] \notin {HTTP_OK, HTTP_FORBIDDEN}) =>
      /\ pc = "idle"
      /\ outcome = Return(None)
      /\ Len(trace) = Min(DataRecvs)
      /\ Cardinality(DataSends) = 1
      /\ Opens("403") = {}
      /\ session_token = trace[Min(DataSends)][3]

\* A call holding a session whose only request ended in a transport fault.
C23_Witness ==
    /\ VerbDone /\ tok0 # None
    /\ Len(trace) = 2 /\ IsRecv(trace[2], "data") /\ trace[2][3] = 0
    /\ outcome = Return(None) /\ session_token = tok0

\* C24: when open_session fails (challenge or session request rejected or
\* raising), session_token is what it was when that open_session began:
\* the token of the last grant of this operation, else the token held when
\* the operation started; it is never the empty string.
C24_FailedOpenKeepsToken ==
    /\ session_token # Empty
    /\ (Len(trace) > 0 /\ trace[Len(trace)][1] = "os_raise") =>
         session_token = CurTok(Len(trace))

\* A renegotiation after a 403 failed at the session request and the token
\* held before is still in place.
C24_Witness ==
    /\ VerbDone /\ First403 /\ tok0 # None
    /\ Len(trace) > 1 /\ trace[Len(trace)][1] = "os_raise"
    /\ IsRecv(trace[Len(trace) - 1], "session")
    /\ session_token = tok0

\* Every response received in this operation is a correct one: challenge
\* and session requests are accepted, a data request is answered with the
\* payload, or with 403 when it carried a token not granted in this
\* operation (a stale credential).
CorrectAnswers ==
    \A i \in DOMAIN trace :
      trace[i][1] = "recv" =>
        \/ Accepted(trace[i]) /\ (trace[i][2] = "data" => trace[i][5] = Payload)
        \/ /\ trace[i][2] = "data" /\ trace[i][3] = HTTP_FORBIDDEN
           /\ \A j \in SessionGrants : trace[j][5] # trace[i - 1][3]

\* C26: whatever happened before, a get/put/post on a client with an
\* app_token whose requests are all answered correctly returns the result
\* payload, with or without a (possibly stale) session token at its start.
C26_RecoversInOneCall ==
    (InVerb /\ ~Falsy(app_token) /\ CorrectAnswers) =>
      /\ OsRaises(AuthError) = {} /\ OsRaises(TransportError) = {}
      /\ pc = "idle" => outcome = Return(Payload)

\* A call that started with a stale token, was refused, renegotiated and
\* returned the payload.
C26_Witness ==
    /\ VerbDone /\ First403 /\ tok0 # None /\ CorrectAnswers
    /\ session_token # tok0
    /\ outcome = Return(Payload)

\* C21: the password of every session-open request is the keyed digest of
\* the challenge just received under the app_token, written as 40
\* lowercase hexadecimal digits; two negotiations that received the same
\* challenge submit the same password.
C21_PasswordDerivation ==
    \A i \in DOMAIN trace :
      IsSend(trace[i], "session") =>
        /\ trace[i][4] = Password(app_token, trace[i - 1][5])
        /\ Len(trace[i][4]) = 40
        /\ \A k \in DOMAIN trace[i][4] :
             trace[i][4][k] \in {"0", "1", "2", "3", "4", "5", "6", "7", "8",
                                 "9", "a", "b", "c", "d", "e", "f"}
        /\ \A j \in DOMAIN trace :
             (IsSend(trace[j], "session") /\ trace[j - 1][5] = trace[i - 1][5])
               => trace[j][4] = trace[i][4]

\* One call negotiated twice, before its first request and after a 403,
\* and received the same challenge both times.
C21_Witness ==
    \E i, j \in DOMAIN trace :
      /\ i < j
      /\ IsSend(trace[i], "session") /\ IsSend(trace[j], "session")
      /\ trace[i - 1][5] = trace[j - 1][5]

C25_OwnChallenge ==
    \A t \in Tasks :
      task[t].password # <<>> =>
        task[t].password = Password(app_token, task[t].fetched)

\* C27: the flow creates a config entry only after a poll of the track id
\* of its current authorization request returned granted, and the entry
\* holds the app_token of that request; the finish step is not reached
\* otherwise.
C27_EntryOnlyAfterGrant ==
    (flow.step \in {"finish", "created"} \/ flow.entry # None) =>
      /\ "granted" \in flow.seen
      /\ flow.granted # None /\ flow.granted = flow.track_id
      /\ flow.entry \in {None, flow.app_token}
      /\ flow.app_token # None

\* An entry was created after polls that first reported pending.
C27_Witness ==
    /\ flow.step = "created" /\ flow.entry # None
    /\ flow.polls > 1 /\ "pending" \in flow.seen

\* C28 (safety part): the loop makes at most 30 polls; it goes on only
\* while no poll returned granted, denied or timeout; it aborts with
\* auth_check_failed exactly when a poll raised, with auth_denied on denied,
\* with auth_timeout on timeout or when 30 polls were all non-terminal.
C28_LoopBounded ==
    /\ flow.polls <= 30
    /\ Cardinality(flow.seen) <= flow.polls
    /\ flow.step = "checking" =>
         flow.seen \cap {"granted", "denied", "timeout"} = {}
    /\ flow.step = "finish" => outcome.status = "granted"
    /\ flow.step = "aborted" =>
         /\ flow.result = "auth_check_failed" <=> outcome.kind = "raise"
         /\ flow.result = "auth_denied" <=> outcome.status = "denied"
         /\ flow.result = "auth_timeout" <=>
              \/ outcome.status = "timeout"
              \/ /\ flow.polls = 30 /\ outcome.kind = "return"
                 /\ outcome.status \notin {"granted", "denied", "timeout"}
         /\ flow.result \in {"auth_check_failed", "auth_denied", "auth_timeout"}

\* C28: the authorization polling loop always terminates, after at most 30
\* polls, in the finish step or in an abort.
C28_LoopTerminates ==
    /\ [](C28_LoopBounded)
    /\ (flow.step = "checking") ~> (flow.step \in {"finish", "aborted"})

\* All 30 polls were non-terminal and the flow aborted with auth_timeout.
C28_Witness ==
    /\ flow.step = "aborted" /\ flow.result = "auth_timeout"
    /\ flow.polls = 30
    /\ flow.seen \cap {"granted", "denied", "timeout"} = {}

\* C29: one press of the repeater reboot button sends the second reboot
\* POST only if the device did not accept the first (HTTP 200 with success
\* true).
C29_SecondPostOnlyAfterRefusal ==
    ent.posts = 2 => ~ent.firstAccepted

\* C30: a turn of a switch changes the cached field in coordinator.data
\* only when the device accepted the PUT (HTTP 200 with success true).
C30_CacheFollowsDevice ==
    ent.changed => ent.accepted

====
